---- MODULE Spec2Model ----
(***************************************************************************)
(* The LinUCB matchmaking bandit of knexa_fl_release/cpm_linucb.py and the *)
(* round loop of knexa_fl_release/simulate_cpm.py.                         *)
(*                                                                         *)
(* Numbers.  Every scalar the callers supply (a context entry, a reward)   *)
(* is a multiple of 1/2 and is stored as the integer 2*value; every        *)
(* product of two of them (an entry of x x^T or of r x, hence of A and b)  *)
(* is a multiple of 1/4 and is stored as the integer 4*value.  A and b are *)
(* float32 arrays: every stored entry is rounded to a 24 bit significand   *)
(* (RoundF32), which scaling by a power of two does not change.  The UCB   *)
(* score, an irrational number in general, is kept in the closed form      *)
(*      N / (2 det)  +  (bn / bd) * sqrt(Q / (det * R))                    *)
(* and two scores are compared exactly (CmpUcb).                           *)
(***************************************************************************)
EXTENDS Integers, Sequences, FiniteSets, TLC

VARIABLES A, b, hist, call, sim

vars == <<A, b, hist, call, sim>>

\* ------------------------------------------------------------------ bounds

\* Most participants handed to one choose_pairs call.
MaxN == 4

\* Most update calls in one behaviour of the bandit specification.
MaxUpdates == 1

\* Most update calls in one behaviour of the float32 specification.
MaxUpdatesF32 == 3

\* SimConfig.num_rounds: the rounds of one simulation.
MaxRounds == 2

\* ----------------------------------------------------------- configuration

\* LinUCBConfig.d: the length of a concatenated pair context.
d == 2

\* LinUCBConfig.lam.
lam == 1

\* LinUCBConfig.beta0 = 1.0, as a fraction.
beta0 == [num |-> 1, den |-> 1]

\* The significand of numpy.float32: integers up to 2^24 are exact.
F32Mant == 16777216

\* ------------------------------------------------------------- arithmetic

Abs(v) == IF v < 0 THEN -v ELSE v

Sgn(v) == IF v < 0 THEN -1 ELSE IF v = 0 THEN 0 ELSE 1

Max(x, y) == IF x >= y THEN x ELSE y

RECURSIVE Ulp(_, _)
\* The spacing of float32 values around n >= 0: the least u = 2^e, e >= 0,
\* with n < 2^24 * u.
Ulp(n, u) == IF n < F32Mant * u THEN u ELSE Ulp(n, 2 * u)

\* Round to nearest float32, ties to even (IEEE 754 default), of an integer.
RoundF32(v) ==
    LET n == Abs(v)
        u == Ulp(n, 1)
        q == n \div u
        rem == n % u
        up == (2 * rem > u) \/ (2 * rem = u /\ q % 2 = 1)
    IN Sgn(v) * (IF up THEN q + 1 ELSE q) * u

\* x * y compared with z * w, for 0 <= x, y, z, w < 2^29, without leaving
\* 32 bit integers: three limbs in base 2^15.
Limbs(x, y) ==
    LET B == 32768
        x1 == x \div B
        x0 == x % B
        y1 == y \div B
        y0 == y % B
        lo == x0 * y0
        mid == x1 * y0 + x0 * y1 + (lo \div B)
    IN <<x1 * y1 + (mid \div B), mid % B, lo % B>>

CmpLimbs(s, t) ==
    IF s[1] # t[1] THEN Sgn(s[1] - t[1])
    ELSE IF s[2] # t[2] THEN Sgn(s[2] - t[2])
    ELSE Sgn(s[3] - t[3])

CmpProd(x, y, z, w) == CmpLimbs(Limbs(x, y), Limbs(z, w))

\* ------------------------------------------------------------ the bandit

Idx == 1..d

\* LinUCB.__init__: A = lam * eye(d), b = zeros((d, 1)); in quarters.
InitA == [p \in Idx |-> [q \in Idx |-> IF p = q THEN 4 * lam ELSE 0]]

InitB == [p \in Idx |-> 0]

\* x.reshape(-1, 1) broadcast to d rows: numpy repeats a single row.
Bcast(x, p) == IF Len(x) = 1 THEN x[1] ELSE x[p]

\* self.A += x @ x.T and self.b += r * x are defined when the (m, m) and
\* (m, 1) operands broadcast to A's and b's shapes: m = d or m = 1.
UpdateShapeOk(x) == Len(x) = d \/ Len(x) = 1

UpdateADiagOnly(M, x) ==
    [p \in Idx |-> [q \in Idx |->
        IF p = q THEN RoundF32(M[p][q] + RoundF32(Bcast(x, p) * Bcast(x, q)))
        ELSE M[p][q]]]

UpdateA(M, x) ==
    [p \in Idx |-> [q \in Idx |->
        RoundF32(M[p][q] + RoundF32(Bcast(x, p) * Bcast(x, q)))]]

UpdateB(v, x, r) == [p \in Idx |-> RoundF32(v[p] + RoundF32(r * Bcast(x, p)))]

\* The sign of det(A) for the 2 x 2 matrix, entries below 2^29 in size.
DetSign(M) ==
    LET s1 == Sgn(M[1][1]) * Sgn(M[2][2])
        s2 == Sgn(M[1][2]) * Sgn(M[2][1])
        t == CmpProd(Abs(M[1][1]), Abs(M[2][2]), Abs(M[1][2]), Abs(M[2][1]))
    IN IF s1 > 0 /\ s2 > 0 THEN t
       ELSE IF s1 < 0 /\ s2 < 0 THEN -t
       ELSE Sgn(s1 - s2)

Det(M) == M[1][1] * M[2][2] - M[1][2] * M[2][1]

\* det(A) * inv(A).
Adj(M) == <<<<M[2][2], -M[1][2]>>, <<-M[2][1], M[1][1]>>>>

\* x^T M y for vectors of length d.
Bilinear(x, M, y) ==
    x[1] * (M[1][1] * y[1] + M[1][2] * y[2])
  + x[2] * (M[2][1] * y[1] + M[2][2] * y[2])

\* beta = beta0 / sqrt(max(1, rnd)): R is the number under the root.
BetaDenom(rnd) == Max(1, rnd)

UcbNoConf(M, v, x, rnd, beta) ==
    [N |-> Bilinear(x, Adj(M), v), Q |-> 0, det |-> Det(M),
     R |-> BetaDenom(rnd), bn |-> beta.num, bd |-> beta.den]

\* mu + beta * conf for context x: theta = inv(A) b, mu = theta . x,
\* conf = sqrt(x^T inv(A) x); kept as N, Q, det, R, bn / bd (see the head).
Ucb(M, v, x, rnd, beta) ==
    [N |-> Bilinear(x, Adj(M), v), Q |-> Bilinear(x, Adj(M), x),
     det |-> Det(M), R |-> BetaDenom(rnd), bn |-> beta.num, bd |-> beta.den]

\* The sign of s1 - s2 for two scores with the same det, R and bn / bd,
\* det > 0: the sign of
\*     bd sqrt(R) D / (2 bn)  +  sqrt(Q1 det)  -  sqrt(Q2 det),
\* D = N1 - N2, found by squaring twice.
CmpUcb(s1, s2) ==
    LET D == s1.N - s2.N
        s == Sgn(D)
        Pf == (IF s > 0 THEN s1.Q ELSE s2.Q) * s1.det
        Po == (IF s > 0 THEN s2.Q ELSE s1.Q) * s1.det
        S == 4 * s1.bn * s1.bn * (Pf + Po)
        t == S - s1.bd * s1.bd * s1.R * D * D
    IN IF s = 0 THEN Sgn(s1.Q - s2.Q)
       ELSE IF Pf >= Po THEN s
       ELSE IF CmpProd(s1.bd * Abs(D), s1.bd * Abs(D) * s1.R, S, 1) > 0 THEN s
       ELSE s * CmpProd(8 * s1.bn * s1.bn * Pf, 8 * s1.bn * s1.bn * Po, t, t)

\* ------------------------------------------------------------ choose_pairs

RECURSIVE CombFrom(_, _, _)
\* itertools.combinations(range(n), 2) from (i, j) on: ascending (i, j).
CombFrom(i, j, n) ==
    IF i >= n - 1 THEN <<>>
    ELSE IF j >= n THEN CombFrom(i + 1, i + 2, n)
    ELSE <<<<i, j>>>> \o CombFrom(i, j + 1, n)

Combinations(n) == CombFrom(0, 1, n)

\* np.concatenate([profiles[i], profiles[j]]); indices are 0-based.
PairCtx(profiles, i, j) == profiles[i + 1] \o profiles[j + 1]

GreaterByScore(c1, c2) == CmpUcb(c1.ucb, c2.ucb) > 0

\* Python's order on the tuples (ucb, i, j): c1 > c2.
Greater(c1, c2) ==
    LET s == CmpUcb(c1.ucb, c2.ucb)
    IN s > 0 \/ (s = 0 /\ (c1.i > c2.i \/ (c1.i = c2.i /\ c1.j > c2.j)))

RECURSIVE InsertDesc(_, _)
\* c, met after every element of s, goes before the first element it exceeds.
InsertDesc(s, c) ==
    IF s = <<>> THEN <<c>>
    ELSE IF Greater(c, Head(s)) THEN <<c>> \o s
    ELSE <<Head(s)>> \o InsertDesc(Tail(s), c)

RECURSIVE SortFrom(_, _, _)
SortFrom(cs, k, acc) ==
    IF k > Len(cs) THEN acc ELSE SortFrom(cs, k + 1, InsertDesc(acc, cs[k]))

\* candidates.sort(reverse=True): descending, equal elements in input order.
SortReverse(cs) == SortFrom(cs, 1, <<>>)

RECURSIVE WalkIgnoreJ(_, _, _, _)
WalkIgnoreJ(cs, pairs, used, k_pairs) ==
    IF cs = <<>> THEN pairs
    ELSE LET c == Head(cs)
         IN IF c.i \notin used /\ Len(pairs) < k_pairs
            THEN WalkIgnoreJ(Tail(cs), Append(pairs, <<c.i, c.j>>),
                             used \cup {c.i, c.j}, k_pairs)
            ELSE WalkIgnoreJ(Tail(cs), pairs, used, k_pairs)

RECURSIVE WalkOffByOne(_, _, _, _)
WalkOffByOne(cs, pairs, used, k_pairs) ==
    IF cs = <<>> THEN pairs
    ELSE LET c == Head(cs)
         IN IF c.i \notin used /\ c.j \notin used /\ Len(pairs) <= k_pairs
            THEN WalkOffByOne(Tail(cs), Append(pairs, <<c.i, c.j>>),
                              used \cup {c.i, c.j}, k_pairs)
            ELSE WalkOffByOne(Tail(cs), pairs, used, k_pairs)

RECURSIVE Walk(_, _, _, _)
\* The greedy walk of choose_pairs over the sorted candidates.
Walk(cs, pairs, used, k_pairs) ==
    IF cs = <<>> THEN pairs
    ELSE LET c == Head(cs)
         IN IF c.i \notin used /\ c.j \notin used /\ Len(pairs) < k_pairs
            THEN Walk(Tail(cs), Append(pairs, <<c.i, c.j>>),
                      used \cup {c.i, c.j}, k_pairs)
            ELSE Walk(Tail(cs), pairs, used, k_pairs)

RECURSIVE GreedyNoBreak(_, _, _, _)
GreedyNoBreak(scores, chosen, used, k_pairs) ==
    IF scores = <<>> THEN chosen
    ELSE LET c == Head(scores)
         IN IF c.i \in used \/ c.j \in used
            THEN GreedyNoBreak(Tail(scores), chosen, used, k_pairs)
            ELSE GreedyNoBreak(Tail(scores), Append(chosen, <<c.i, c.j>>),
                               used \cup {c.i, c.j}, k_pairs)

RECURSIVE GreedyFrom(_, _, _, _)
\* The loop of _greedy_disjoint_top: skip a used pair, append, then break
\* once k_pairs are chosen.
GreedyFrom(scores, chosen, used, k_pairs) ==
    IF scores = <<>> THEN chosen
    ELSE LET c == Head(scores)
         IN IF c.i \in used \/ c.j \in used
            THEN GreedyFrom(Tail(scores), chosen, used, k_pairs)
            ELSE IF Len(chosen) + 1 >= k_pairs
            THEN Append(chosen, <<c.i, c.j>>)
            ELSE GreedyFrom(Tail(scores), Append(chosen, <<c.i, c.j>>),
                            used \cup {c.i, c.j}, k_pairs)

\* _greedy_disjoint_top(scores, k_pairs).
GreedyDisjointTop(scores, k_pairs) == GreedyFrom(scores, <<>>, {}, k_pairs)

\* The candidates of choose_pairs in enumeration order.
Candidates(M, v, profiles, rnd, beta) ==
    LET cb == Combinations(Len(profiles))
    IN [c \in 1..Len(cb) |->
          [ucb |-> Ucb(M, v, PairCtx(profiles, cb[c][1], cb[c][2]), rnd, beta),
           i |-> cb[c][1], j |-> cb[c][2]]]

\* theta.T @ ctx of shapes (1, d) @ (m, 1) raises unless m = d.
CtxShapeOk(x) == Len(x) = d

\* LinUCB.choose_pairs: np.linalg.inv raises on a singular A, the first
\* pair whose context has the wrong length raises in the loop.
ChoosePairsResult(M, v, beta, profiles, k_pairs, rnd) ==
    LET cb == Combinations(Len(profiles))
    IN IF DetSign(M) = 0
       THEN [ok |-> FALSE, cands |-> <<>>, pairs |-> <<>>]
       ELSE IF \E c \in 1..Len(cb) :
                  ~CtxShapeOk(PairCtx(profiles, cb[c][1], cb[c][2]))
       THEN [ok |-> FALSE, cands |-> <<>>, pairs |-> <<>>]
       ELSE LET sorted == SortReverse(Candidates(M, v, profiles, rnd, beta))
            IN [ok |-> TRUE, cands |-> sorted,
                pairs |-> Walk(sorted, <<>>, {}, k_pairs)]

\* ----------------------------------------------------------------- inputs

\* Context entries 0.0, 0.5 and 1.0, in halves.
Vals == {0, 1, 2}

\* Rewards -1.0 and 1.0, in halves.
Rewards == {-2, 2}

\* Round numbers handed to ucb_score, and those handed to choose_pairs.
Rnds == {0, 1, 4}

ChooseRnds == {1, 4}

Vecs(S, m) == [1..m -> S]

\* Vectors handed to update and ucb_score: of the length d, and of the
\* lengths 0, 1 and d + 1.
CtxInputs == {<<2, 0>>, <<1, 2>>, <<>>, <<2>>, <<1, 1, 1>>}

\* Participant lists whose vectors all have the length d / 2.
GoodProfiles == UNION {[1..n -> Vecs(Vals, 1)] : n \in 0..MaxN}

\* Participant lists with a vector of another length.
BadProfiles ==
    {<<<<1, 1>>>>, <<<<1, 1>>, <<2>>>>, <<<<>>, <<1, 2>>>>,
     <<<<1>>, <<>>, <<2>>>>, <<<<1>>, <<2>>, <<1, 1>>>>}

Profiles == GoodProfiles \cup BadProfiles

KPairs == 0..((MaxN \div 2) + 1)

\* No call is in progress.
NoCall ==
    [op |-> "idle", x |-> <<>>, r |-> 0, profiles |-> <<>>, k_pairs |-> 0,
     rnd |-> 0, ok |-> TRUE, cands |-> <<>>, pairs |-> <<>>]

NoSim == [pc |-> "off"]

\* ---------------------------------------------------------------- actions

Init ==
    /\ A = InitA
    /\ b = InitB
    /\ hist = <<>>
    /\ call = NoCall
    /\ sim = NoSim

\* The body of LinUCB.update(ctx_vec, reward); hist logs the calls that
\* changed the state.
UpdateCall(x, r) ==
    /\ call.op = "idle"
    /\ IF UpdateShapeOk(x)
       THEN /\ A' = UpdateA(A, x)
            /\ b' = UpdateB(b, x, r)
            /\ hist' = Append(hist, [x |-> x, r |-> r])
       ELSE UNCHANGED <<A, b, hist>>
    /\ call' = [NoCall EXCEPT !.op = "update", !.x = x, !.r = r,
                              !.ok = UpdateShapeOk(x)]
    /\ UNCHANGED sim

\* LinUCB.update(ctx_vec, reward).
Update(x, r) == Len(hist) < MaxUpdates /\ UpdateCall(x, r)

\* LinUCB.ucb_score(ctx_vec, rnd): np.linalg.solve raises on a singular A,
\* theta.T @ x on a vector of the wrong length.
UcbScore(x, rnd) ==
    /\ call.op = "idle"
    /\ call' = [NoCall EXCEPT !.op = "ucb_score", !.x = x, !.rnd = rnd,
                              !.ok = (DetSign(A) # 0 /\ CtxShapeOk(x)),
                              !.cands = IF DetSign(A) # 0 /\ CtxShapeOk(x)
                                        THEN <<[ucb |-> Ucb(A, b, x, rnd, beta0),
                                                i |-> 0, j |-> 0]>>
                                        ELSE <<>>]
    /\ UNCHANGED <<A, b, hist, sim>>

ChoosePairsAndUpdate(profiles, k_pairs, rnd) ==
    /\ call.op = "idle"
    /\ LET res == ChoosePairsResult(A, b, beta0, profiles, k_pairs, rnd)
       IN /\ call' = [NoCall EXCEPT !.op = "choose_pairs",
                                    !.profiles = profiles,
                                    !.k_pairs = k_pairs,
                                    !.rnd = rnd, !.ok = res.ok,
                                    !.cands = res.cands, !.pairs = res.pairs]
          /\ A' = IF res.pairs = <<>> THEN A
                  ELSE UpdateA(A, PairCtx(profiles, res.pairs[1][1],
                                          res.pairs[1][2]))
    /\ UNCHANGED <<b, hist, sim>>

\* LinUCB.choose_pairs(profiles, k_pairs, rnd).
ChoosePairs(profiles, k_pairs, rnd) ==
    /\ call.op = "idle"
    /\ LET res == ChoosePairsResult(A, b, beta0, profiles, k_pairs, rnd)
       IN call' = [NoCall EXCEPT !.op = "choose_pairs",
                                 !.profiles = profiles, !.k_pairs = k_pairs,
                                 !.rnd = rnd, !.ok = res.ok,
                                 !.cands = res.cands, !.pairs = res.pairs]
    /\ UNCHANGED <<A, b, hist, sim>>

\* The caller repeats its choose_pairs call with the same arguments.
ChoosePairsAgain ==
    /\ call.op = "choose_pairs"
    /\ LET res == ChoosePairsResult(A, b, beta0, call.profiles, call.k_pairs,
                                    call.rnd)
       IN call' = [call EXCEPT !.ok = res.ok, !.cands = res.cands,
                               !.pairs = res.pairs]
    /\ UNCHANGED <<A, b, hist, sim>>

\* The call has returned and the caller has read its result.
Return ==
    /\ call.op # "idle"
    /\ call' = NoCall
    /\ UNCHANGED <<A, b, hist, sim>>

Next ==
    \/ \E x \in CtxInputs, r \in Rewards : Update(x, r)
    \/ \E x \in CtxInputs, rnd \in Rnds : UcbScore(x, rnd)
    \/ \E profiles \in Profiles, k_pairs \in KPairs, rnd \in ChooseRnds :
          ChoosePairs(profiles, k_pairs, rnd)
    \/ ChoosePairsAgain
    \/ Return

Spec == Init /\ [][Next]_vars

\* ------------------------------------------------- the float32 accumulators

\* Context entries 0.0, 1.0 and 4096.0, in halves.
WideVals == {0, 2, 8192}

\* update on contexts of the length d whose squares reach 2^24.
UpdateF32(x, r) == Len(hist) < MaxUpdatesF32 /\ UpdateCall(x, r)

NextF32 ==
    \/ \E x \in Vecs(WideVals, d), r \in Rewards : UpdateF32(x, r)
    \/ Return

SpecF32 == Init /\ [][NextF32]_vars

\* ------------------------------------------------------------- run_sim
\*
\* d_context = 1, so that the bandit has d = 2.  The draws of the random
\* generator (w_star, the contexts, the noise, the permutation) are choices
\* from finite sets: w_star among the unit vectors with integer entries,
\* context entries among SimVals (in halves), noise among Noise (in
\* halves).  True means, rewards, values and regrets are in halves.  The
\* Pass@1 proxy is kept as the fraction num / den, 0 / 0 for nan.  The CSV
\* files written after the last round print the four lists.

\* LinUCBConfig(d=2 * d_context, lam=1.0, beta0=1.25) in run_sim.
SimBeta0 == [num |-> 5, den |-> 4]

SimClients == {2, 3, 4}

SimKPairs == {0, 1, 2}

SimVals == {0, 2}

SimWStar == {<<1, 0>>, <<0, -1>>}

Noise == {-1, 1}

\* float(w_star @ x).
Mu(w, x) == w[1] * x[1] + w[2] * x[2]

\* The real number m / 2 in the closed form of a score.
RealScore(m) == [N |-> m, Q |-> 0, det |-> 1, R |-> 1, bn |-> 1, bd |-> 1]

\* _oracle_pair_scores(w_star, contexts): (mu, i, j) for i < j, sorted
\* with sort(reverse=True).
OraclePairScores(w, contexts) ==
    LET cb == Combinations(Len(contexts))
    IN SortReverse([c \in 1..Len(cb) |->
           [ucb |-> RealScore(Mu(w, PairCtx(contexts, cb[c][1], cb[c][2]))),
            i |-> cb[c][1], j |-> cb[c][2]]])

RECURSIVE PairsValue(_, _, _)
\* The sum of the true means of the pairs, each taken as (first, second).
PairsValue(w, contexts, pairs) ==
    IF pairs = <<>> THEN 0
    ELSE Mu(w, PairCtx(contexts, Head(pairs)[1], Head(pairs)[2]))
         + PairsValue(w, contexts, Tail(pairs))

RECURSIVE UpdateAll(_, _, _, _, _, _)
\* linucb.update(x, mu + noise) for each chosen pair, in order.
UpdateAll(M, v, w, contexts, pairs, noise) ==
    IF pairs = <<>> THEN [A |-> M, b |-> v]
    ELSE LET x == PairCtx(contexts, Head(pairs)[1], Head(pairs)[2])
             reward == Mu(w, x) + Head(noise)
         IN UpdateAll(UpdateA(M, x), UpdateB(v, x, reward), w, contexts,
                      Tail(pairs), Tail(noise))

\* The rewards mu + noise of the pairs, in order.
NoisyRewards(w, contexts, pairs, noise) ==
    [t \in 1..Len(pairs) |->
        Mu(w, PairCtx(contexts, pairs[t][1], pairs[t][2])) + noise[t]]

RECURSIVE SumSeq(_)
SumSeq(seq) == IF seq = <<>> THEN 0 ELSE Head(seq) + SumSeq(Tail(seq))

\* _to_pass1(rewards): clip(mean(rewards) * pass1_scale + 0.1, 0, 1) with
\* pass1_scale = 0.3, i.e. (3 * sum + 2 * n) / (20 * n) for rewards in
\* halves; the mean of no rewards is nan.
ToPass1(rewards) ==
    LET n == Len(rewards)
        num == 3 * SumSeq(rewards) + 2 * n
        den == 20 * n
    IN [num |-> IF num < 0 THEN 0 ELSE IF num > den THEN den ELSE num,
        den |-> den]

NoClamp(v) == v

\* max(0.0, v).
Clamp0(v) == Max(0, v)

SimInit ==
    /\ A = InitA
    /\ b = InitB
    /\ hist = <<>>
    /\ call = NoCall
    /\ \E n \in SimClients, k \in SimKPairs, w \in SimWStar :
         \E contexts \in [1..n -> Vecs(SimVals, 1)] :
            sim = [pc |-> "select", num_clients |-> n, k_pairs |-> k,
                   num_rounds |-> MaxRounds, w_star |-> w,
                   contexts |-> contexts, r |-> 1,
                   oracle_pairs |-> <<>>, oracle_value |-> 0,
                   lin_pairs |-> <<>>, lin_value |-> 0,
                   rnd_pairs |-> <<>>, rnd_value |-> 0,
                   lin_rewards |-> <<>>, rnd_rewards |-> <<>>,
                   pass1_linucb |-> <<>>, pass1_random |-> <<>>,
                   cum_reg_lin |-> 0, cum_reg_rand |-> 0,
                   regret_linucb |-> <<>>, regret_random |-> <<>>]

\* One round of run_sim, up to the bandit's updates: the oracle matching,
\* choose_pairs, and update on the noisy reward of every chosen pair.
SimSelect ==
    /\ sim.pc = "select"
    /\ LET oracle == GreedyDisjointTop(
                         OraclePairScores(sim.w_star, sim.contexts),
                         sim.k_pairs)
           lin == ChoosePairsResult(A, b, SimBeta0, sim.contexts,
                                    sim.k_pairs, sim.r)
       IN IF lin.ok
          THEN \E noise \in [1..Len(lin.pairs) -> Noise] :
                 LET new == UpdateAll(A, b, sim.w_star, sim.contexts,
                                      lin.pairs, noise)
                 IN /\ A' = new.A
                    /\ b' = new.b
                    /\ sim' = [sim EXCEPT
                          !.pc = "baseline",
                          !.oracle_pairs = oracle,
                          !.oracle_value =
                              PairsValue(sim.w_star, sim.contexts, oracle),
                          !.lin_pairs = lin.pairs,
                          !.lin_rewards =
                              NoisyRewards(sim.w_star, sim.contexts,
                                           lin.pairs, noise),
                          !.lin_value =
                              PairsValue(sim.w_star, sim.contexts, lin.pairs)]
          ELSE /\ sim' = [sim EXCEPT !.pc = "error"]
               /\ UNCHANGED <<A, b>>
    /\ UNCHANGED <<hist, call>>

\* rnd_pairs: (perm[0], perm[1]), (perm[2], perm[3]), ... for k_pairs pairs.
RndPairs(perm, k_pairs) ==
    [t \in 1..k_pairs |-> <<perm[2 * (t - 1)], perm[2 * (t - 1) + 1]>>]

\* perm[k + 1] is past the end of the permutation for some k.
RndIndexError(num_clients, k_pairs) == 2 * k_pairs > num_clients

\* The random baseline of the round: the pairs of a permutation and their
\* noisy rewards; an index past the end raises IndexError.
SimBaseline ==
    /\ sim.pc = "baseline"
    /\ \E perm \in Permutations(0..(sim.num_clients - 1)) :
          IF ~RndIndexError(sim.num_clients, sim.k_pairs)
          THEN LET pairs == RndPairs(perm, sim.k_pairs)
               IN \E noise \in [1..Len(pairs) -> Noise] :
                     sim' = [sim EXCEPT
                        !.pc = "regret",
                        !.rnd_pairs = pairs,
                        !.rnd_rewards =
                            NoisyRewards(sim.w_star, sim.contexts, pairs,
                                         noise),
                        !.rnd_value =
                            PairsValue(sim.w_star, sim.contexts, pairs)]
          ELSE sim' = [sim EXCEPT !.pc = "error"]
    /\ UNCHANGED <<A, b, hist, call>>

\* The regret accumulation and the Pass@1 proxies that end the round.  The
\* round's locals are assigned again before the next round reads them; they
\* are cleared here.
SimRegret ==
    /\ sim.pc = "regret"
    /\ LET lin == sim.cum_reg_lin + Clamp0(sim.oracle_value - sim.lin_value)
           rand == sim.cum_reg_rand + Clamp0(sim.oracle_value - sim.rnd_value)
       IN sim' = [sim EXCEPT
             !.pc = IF sim.r + 1 > sim.num_rounds THEN "done" ELSE "select",
             !.r = sim.r + 1,
             !.cum_reg_lin = lin,
             !.cum_reg_rand = rand,
             !.regret_linucb = Append(sim.regret_linucb, lin),
             !.regret_random = Append(sim.regret_random, rand),
             !.pass1_linucb =
                 Append(sim.pass1_linucb, ToPass1(sim.lin_rewards)),
             !.pass1_random =
                 Append(sim.pass1_random, ToPass1(sim.rnd_rewards)),
             !.oracle_pairs = <<>>, !.oracle_value = 0,
             !.lin_pairs = <<>>, !.lin_value = 0, !.lin_rewards = <<>>,
             !.rnd_pairs = <<>>, !.rnd_value = 0, !.rnd_rewards = <<>>]
    /\ UNCHANGED <<A, b, hist, call>>

SimNext == SimSelect \/ SimBaseline \/ SimRegret

SpecSim == SimInit /\ [][SimNext]_vars

\* ------------------------------------------------------------------ claims

\* A choose_pairs call has returned a pair list.
ChooseDone == call.op = "choose_pairs" /\ call.ok

PairSet(pr) == {pr[1], pr[2]}

\* C1: the pairs choose_pairs returns are pairwise disjoint, and each is
\* (i, j) with i # j and both indices in 0..len(profiles)-1, whatever
\* updates came before.
C1_PairsDisjoint ==
    ChooseDone =>
        \A p \in 1..Len(call.pairs) :
            /\ call.pairs[p][1] # call.pairs[p][2]
            /\ PairSet(call.pairs[p]) \subseteq 0..(Len(call.profiles) - 1)
            /\ \A q \in 1..Len(call.pairs) :
                   q # p => PairSet(call.pairs[p]) \cap PairSet(call.pairs[q]) = {}

\* Two pairs were returned from a state an update has changed.
C1_Witness == ChooseDone /\ Len(call.pairs) = 2 /\ Len(hist) = 1

\* C2: with k_pairs >= 1, choose_pairs returns at most k_pairs pairs and at
\* most floor(n / 2) pairs.
C2_CountBounded ==
    (ChooseDone /\ call.k_pairs >= 1) =>
        /\ Len(call.pairs) <= call.k_pairs
        /\ Len(call.pairs) <= Len(call.profiles) \div 2

\* Four participants allow two pairs, and k_pairs = 1 cut the list to one.
C2_Witness ==
    /\ ChooseDone
    /\ call.k_pairs = 1
    /\ Len(call.profiles) = 4
    /\ Len(call.pairs) = 1

\* (i1, j1) comes before (i2, j2) in itertools.combinations order.
EnumBefore(c1, c2) == c1.i < c2.i \/ (c1.i = c2.i /\ c1.j < c2.j)

\* C3 as stated: candidates of equal score are walked in enumeration order,
\* as after a stable descending sort by score.
C3_TiesInEnumerationOrder ==
    ChooseDone =>
        \A p, q \in 1..Len(call.cands) :
            (p < q /\ CmpUcb(call.cands[p].ucb, call.cands[q].ucb) = 0)
                => EnumBefore(call.cands[p], call.cands[q])

\* C3 as amended: the walk is in descending score order, and candidates of
\* equal score are walked in descending (i, j) order, the reverse of the
\* enumeration order.
C3_TiesInReverseOrder ==
    ChooseDone =>
        \A p, q \in 1..Len(call.cands) :
            p < q =>
                /\ CmpUcb(call.cands[p].ucb, call.cands[q].ucb) >= 0
                /\ CmpUcb(call.cands[p].ucb, call.cands[q].ucb) = 0
                       => EnumBefore(call.cands[q], call.cands[p])

\* Two candidates of equal score were sorted, after an update.
C3_Witness ==
    /\ ChooseDone
    /\ Len(hist) = 1
    /\ \E p, q \in 1..Len(call.cands) :
           p < q /\ CmpUcb(call.cands[p].ucb, call.cands[q].ucb) = 0

\* The call that has just returned was given a context of a length other
\* than d (choose_pairs: two profiles or more, and a concatenated pair of a
\* length other than d).
MismatchedCall ==
    \/ call.op \in {"update", "ucb_score"} /\ Len(call.x) # d
    \/ /\ call.op = "choose_pairs"
       /\ \E i, j \in 1..Len(call.profiles) :
              i < j /\ Len(call.profiles[i]) + Len(call.profiles[j]) # d

\* C4: a call given a context of the wrong length ends in an error and
\* leaves A and b as they were.
C4_MismatchFails ==
    [][MismatchedCall' => (~call'.ok /\ A' = A /\ b' = b)]_vars

\* C6: A and b change only at update steps, and a choose_pairs call repeated
\* with the same arguments returns the same pair list.
C6_SelectionReadOnly ==
    [][/\ (A' # A \/ b' # b) => call'.op = "update"
       /\ ( /\ call.op = "choose_pairs"
            /\ call'.op = "choose_pairs"
            /\ call'.profiles = call.profiles
            /\ call'.k_pairs = call.k_pairs
            /\ call'.rnd = call.rnd )
          => (call'.ok = call.ok /\ call'.pairs = call.pairs)]_vars

\* choose_pairs returned pairs from a state an update has changed.
C6_Witness == ChooseDone /\ call.pairs # <<>> /\ A # InitA /\ b # InitB

\* 4 * |x|^2 for the concatenated context of profiles i and j.
Norm2(profiles, i, j) ==
    LET x == PairCtx(profiles, i, j) IN x[1] * x[1] + x[2] * x[2]

C10_SameGreedy ==
    ChooseDone => GreedyDisjointTop(call.cands, call.k_pairs) = call.pairs

\* C10 as amended: the two return the same list for every k_pairs >= 1.
C10_SameGreedyPositiveK ==
    (ChooseDone /\ call.k_pairs >= 1) =>
        GreedyDisjointTop(call.cands, call.k_pairs) = call.pairs

\* Both stopped at k_pairs = 1 with candidates left to walk.
C10_Witness ==
    /\ ChooseDone
    /\ call.k_pairs = 1
    /\ Len(call.cands) = 6
    /\ Len(call.pairs) = 1
    /\ Len(hist) = 1

\* The exact sums of the logged updates, in quarters.
RECURSIVE SumOuter(_, _, _)
SumOuter(h, p, q) ==
    IF h = <<>> THEN 0
    ELSE Head(h).x[p] * Head(h).x[q] + SumOuter(Tail(h), p, q)

RECURSIVE SumRewarded(_, _)
SumRewarded(h, p) ==
    IF h = <<>> THEN 0 ELSE Head(h).r * Head(h).x[p] + SumRewarded(Tail(h), p)

RECURSIVE SumAbsOuter(_, _, _)
SumAbsOuter(h, p, q) ==
    IF h = <<>> THEN 0
    ELSE Abs(Head(h).x[p] * Head(h).x[q]) + SumAbsOuter(Tail(h), p, q)

RECURSIVE SumAbsRewarded(_, _)
SumAbsRewarded(h, p) ==
    IF h = <<>> THEN 0
    ELSE Abs(Head(h).r * Head(h).x[p]) + SumAbsRewarded(Tail(h), p)

ExactState ==
    /\ \A p, q \in Idx : A[p][q] = InitA[p][q] + SumOuter(hist, p, q)
    /\ \A p \in Idx : b[p] = SumRewarded(hist, p)

\* No sum of the logged updates, taken in any order, leaves the integers
\* float32 holds exactly.
NoRounding ==
    /\ \A p, q \in Idx : InitA[p][q] + SumAbsOuter(hist, p, q) <= F32Mant
    /\ \A p \in Idx : SumAbsRewarded(hist, p) <= F32Mant

\* C5 as stated: after any sequence of updates A is lam * I plus the sum of
\* the outer products and b the sum of the reward-weighted contexts, which
\* do not depend on the order of the updates.
C5_ExactSums == ExactState

\* C5 as amended: the same, for updates none of whose sums is rounded by
\* float32.
C5_ExactSumsUnrounded == NoRounding => ExactState

\* Two different updates were summed without rounding.
C5_Witness ==
    /\ Len(hist) >= 2
    /\ hist[1] # hist[2]
    /\ NoRounding
    /\ A[1][2] # 0
    /\ b[1] # 0

\* C7: after any sequence of updates A is symmetric and det(A) > 0.
C7_SymmetricInvertible ==
    /\ \A p, q \in Idx : A[p][q] = A[q][p]
    /\ DetSign(A) > 0

NonDecreasing(seq) ==
    \A t \in 1..Len(seq) : seq[t] >= 0 /\ (t > 1 => seq[t] >= seq[t - 1])

\* C9: after every round the cumulative regret of LinUCB and of the random
\* baseline is >= 0 and not smaller than after the round before.
C9_RegretMonotone ==
    /\ NonDecreasing(sim.regret_linucb)
    /\ NonDecreasing(sim.regret_random)
    /\ sim.cum_reg_lin >= 0
    /\ sim.cum_reg_rand >= 0
    /\ Len(sim.regret_linucb) = sim.r - 1
    /\ Len(sim.regret_random) = sim.r - 1
    /\ sim.r > 1 =>
          /\ sim.regret_linucb[sim.r - 1] = sim.cum_reg_lin
          /\ sim.regret_random[sim.r - 1] = sim.cum_reg_rand

\* The second round has ended; in it the random baseline's cumulative
\* regret, positive, stayed the same and the bandit's grew.
C9_Witness ==
    /\ sim.pc = "done"
    /\ Len(sim.regret_random) = 2
    /\ sim.regret_random[1] > 0
    /\ sim.regret_random[2] = sim.regret_random[1]
    /\ sim.regret_linucb[2] > sim.regret_linucb[1]

\* The pairs of the list share no index, and every index is a participant's.
DisjointPairs(pairs, n) ==
    /\ \A t \in 1..Len(pairs) :
          /\ pairs[t][1] \in 0..(n - 1)
          /\ pairs[t][2] \in 0..(n - 1)
          /\ pairs[t][1] # pairs[t][2]
    /\ \A t, u \in 1..Len(pairs) :
          t # u => PairSet(pairs[t]) \cap PairSet(pairs[u]) = {}

\* C11: in every round of run_sim with num_clients >= 2 and k_pairs >= 1,
\* whatever permutation is drawn, the random-baseline step completes with
\* exactly k_pairs pairwise disjoint pairs of participant indices, and it
\* leaves the bandit's A and b as they were.
C11_BaselineKDisjointPairs ==
    [][(sim.pc = "baseline" /\ sim.num_clients >= 2 /\ sim.k_pairs >= 1) =>
          /\ sim'.pc = "regret"
          /\ Len(sim'.rnd_pairs) = sim.k_pairs
          /\ DisjointPairs(sim'.rnd_pairs, sim.num_clients)
          /\ A' = A
          /\ b' = b]_vars

====
